---------------------------- MODULE Spec2Model ----------------------------
(***************************************************************************)
(* A model of genealogy_aligner/Genealogical.py: the pedigree DAG held by  *)
(* a Genealogical object and the queries that traverse it.                 *)
(*                                                                         *)
(* The graph is the state left by the constructor; every behaviour is one  *)
(* call of one query on that graph.  trace_edges is a generator: its while *)
(* loop is stepped one layer at a time, and the loop of the caller that    *)
(* consumes its pairs (infer_depth, iter_edges) runs inside the same step. *)
(* A raised Python exception is a return record whose exc field names it.  *)
(***************************************************************************)
EXTENDS Integers, FiniteSets, Sequences, TLC

\* Node identifiers are 0 .. NumNodes-1, as similarity() assumes (range(n)).
NumNodes == 4
\* The graphs explored have at most MaxEdges parent->child edges.
MaxEdges == 4
\* Largest k / climb_up_step passed to predecessors, successors, get_probands_under.
MaxK == 2
\* Largest number of nodes in a source set passed explicitly to trace_edges.
MaxSources == 1

VARIABLES
    graph,          \* self.graph: the set of (parent, child) edges
    pred_order,     \* the order in which graph.predecessors(n) reports n's parents
    pc,             \* "idle" | "trace" | "done"
    op,             \* the method called
    args,           \* its arguments
    curr_gen,       \* trace_edges: the current generation
    layer,          \* trace_edges: number of completed iterations of its while loop
    traced,         \* trace_edges: how many times each (node, neighbor) pair was yielded
    depth,          \* infer_depth: the defaultdict(int); its domain is the keys present
    visited_edges,  \* iter_edges: the visited set
    emitted,        \* iter_edges: how many times each pair was yielded to the caller
    ret             \* the value returned (or the exception raised) by the call

vars == <<graph, pred_order, pc, op, args, curr_gen, layer, traced, depth,
          visited_edges, emitted, ret>>

Nodes == 0 .. (NumNodes - 1)

----------------------------------------------------------------------------
(* The graphs: every acyclic edge set over Nodes with at most MaxEdges edges *)

AllPairs == {e \in Nodes \X Nodes : e[1] # e[2]}

RECURSIVE EdgeSets(_)
EdgeSets(k) ==
    IF k = 0 THEN {{}}
    ELSE LET prev == EdgeSets(k - 1)
         IN  prev \cup {s \cup {e} : s \in prev, e \in AllPairs}

\* Acyclic: the nodes can be removed one at a time, each with no parent left.
RECURSIVE Acyclic(_, _)
Acyclic(E, S) ==
    IF S = {} THEN TRUE
    ELSE LET free == {n \in S : ~ \E e \in E : e[2] = n /\ e[1] \in S}
         IN  IF free = {} THEN FALSE ELSE Acyclic(E, S \ free)

DagEdgeSets == {E \in EdgeSets(MaxEdges) : Acyclic(E, Nodes)}

----------------------------------------------------------------------------
(* Graph accessors *)

\* self.graph.predecessors(n) and self.graph.successors(n), as sets
G_predecessors(n) == {e[1] : e \in {x \in graph : x[2] = n}}
G_successors(n)   == {e[2] : e \in {x \in graph : x[1] = n}}

\* Python truth value of a node identifier: the integer 0 is false.
Truthy(x) == x # 0

\* any(iterable) over node identifiers
PyAny(S) == \E x \in S : Truthy(x)

\* founders(): nodes n with  not any(G.predecessors(n))
founders == {n \in Nodes : ~ PyAny(G_predecessors(n))}

\* probands(): nodes n with  not any(G.successors(n))
probands == {n \in Nodes : ~ PyAny(G_successors(n))}

\* All orders in which the elements of a set can be iterated
RECURSIVE PermSeqs(_)
PermSeqs(S) ==
    IF S = {} THEN {<<>>}
    ELSE UNION {{<<x>> \o s : s \in PermSeqs(S \ {x})} : x \in S}

\* A dict lookup with a default
Get(d, k, default) == IF k \in DOMAIN d THEN d[k] ELSE default

NoArgs == [forward |-> TRUE, source |-> {}, target |-> {}, include_target |-> TRUE,
           node |-> 0, k |-> 0, include_intermediates |-> FALSE,
           include_ends |-> FALSE, nodes |-> {}, default |-> FALSE]

Returned(v) == [exc |-> "none", val |-> v]
Raised(e)   == [exc |-> e, val |-> {}]
NoReturn    == [exc |-> "pending", val |-> {}]

----------------------------------------------------------------------------
(* trace_edges and the loops that consume it *)

\* neighbors = self.graph.successors if forward else self.graph.predecessors
neighbors(forward, n) == IF forward THEN G_successors(n) ELSE G_predecessors(n)

\* The default source: founders when forward, probands otherwise
DefaultSource(forward) == IF forward THEN founders ELSE probands

\* The pairs yielded while the for loops run over one generation
LayerPairs(forward, gen) ==
    UNION {{<<n, c>> : c \in neighbors(forward, n)} : n \in gen}

\* Mutant of NextGen: nodes of the current generation are not entered again
NextGenSkipCurrent(forward, gen) ==
    (UNION {neighbors(forward, n) : n \in gen}) \ gen

\* next_gen once the for loops have run over the generation
NextGen(forward, gen) == UNION {neighbors(forward, n) : n \in gen}

\* Mutant of RelaxNode: the test is  depth[child] < d
RelaxNodeStrict(d, forward, node) ==
    LET nbrs == neighbors(forward, node)
        dn   == Get(d, node, 0)
    IN  IF nbrs = {} THEN d
        ELSE [x \in DOMAIN d \cup {node} \cup nbrs |->
                IF x \in nbrs
                THEN IF Get(d, x, 0) < dn THEN dn + 1 ELSE Get(d, x, 0)
                ELSE Get(d, x, 0)]

\* infer_depth's loop body over the pairs (node, child) of one node: d = depth[node]
\* inserts node with 0 if absent; depth[child] <= d inserts child likewise.
\* A node without neighbors yields no pair and is not touched.
RelaxNode(d, forward, node) ==
    LET nbrs == neighbors(forward, node)
        dn   == Get(d, node, 0)
    IN  IF nbrs = {} THEN d
        ELSE [x \in DOMAIN d \cup {node} \cup nbrs |->
                IF x \in nbrs
                THEN IF Get(d, x, 0) <= dn THEN dn + 1 ELSE d[x]
                ELSE Get(d, x, 0)]

\* ... over the nodes of a generation, in the order the set iterates
RECURSIVE RelaxLayer(_, _, _)
RelaxLayer(d, forward, order) ==
    IF order = <<>> THEN d
    ELSE RelaxLayer(RelaxNode(d, forward, Head(order)), forward, Tail(order))

DepthOps == {"infer_depth", "get_num_paths_to_target"}

\* The iteration orders of curr_gen that the consumer can tell apart: only the
\* relaxation of infer_depth reads values written earlier in the same layer.
IterOrders(gen) ==
    IF op \in DepthOps THEN PermSeqs(gen) ELSE {<<>>}

\* Mutant of Unvisited: the visited set is not consulted
UnvisitedUnchecked(pairs, visited) == pairs

\* iter_edges: the pairs of a layer that pass  (node, neighbor) not in visited_edges
Unvisited(pairs, visited) == pairs \ visited

AddCounts(bag, S) ==
    [e \in DOMAIN bag \cup S |-> Get(bag, e, 0) + (IF e \in S THEN 1 ELSE 0)]

StartTrace(o, a, src) ==
    /\ pc = "idle"
    /\ pc' = "trace"
    /\ op' = o
    /\ args' = a
    /\ curr_gen' = src
    /\ layer' = 0
    /\ UNCHANGED <<graph, pred_order, traced, depth, visited_edges, emitted, ret>>

\* trace_edges(forward, source) with source given
CallTraceEdges ==
    \E f \in BOOLEAN, src \in {S \in SUBSET Nodes : Cardinality(S) <= MaxSources} :
        StartTrace("trace_edges", [NoArgs EXCEPT !.forward = f, !.source = src], src)

\* trace_edges(forward) with source None
CallTraceEdgesDefault ==
    \E f \in BOOLEAN :
        StartTrace("trace_edges",
                   [NoArgs EXCEPT !.forward = f, !.source = DefaultSource(f),
                                  !.default = TRUE],
                   DefaultSource(f))

\* iter_edges(forward) with source None
CallIterEdges ==
    \E f \in BOOLEAN :
        StartTrace("iter_edges",
                   [NoArgs EXCEPT !.forward = f, !.source = DefaultSource(f),
                                  !.default = TRUE],
                   DefaultSource(f))

\* infer_depth(forward)
CallInferDepth ==
    \E f \in BOOLEAN :
        StartTrace("infer_depth",
                   [NoArgs EXCEPT !.forward = f, !.source = DefaultSource(f),
                                  !.default = TRUE],
                   DefaultSource(f))

\* One iteration of the while loop of trace_edges, with the consumer's loop body
\* run on every pair it yields.
TraceLayer ==
    /\ pc = "trace"
    /\ curr_gen # {}
    /\ LET fwd   == args.forward
           pairs == LayerPairs(fwd, curr_gen)
       IN  /\ traced' = AddCounts(traced, pairs)
           /\ \E order \in IterOrders(curr_gen) :
                 depth' = IF op \in DepthOps THEN RelaxLayer(depth, fwd, order)
                          ELSE depth
           /\ IF op = "iter_edges"
              THEN /\ emitted' = AddCounts(emitted, Unvisited(pairs, visited_edges))
                   /\ visited_edges' = visited_edges \cup pairs
              ELSE UNCHANGED <<emitted, visited_edges>>
           /\ curr_gen' = NextGen(fwd, curr_gen)
    /\ layer' = layer + 1
    /\ UNCHANGED <<graph, pred_order, pc, op, args, ret>>

\* The while loop ends: trace_edges or iter_edges is exhausted
TraceDone ==
    /\ pc = "trace"
    /\ curr_gen = {}
    /\ op \in {"trace_edges", "iter_edges"}
    /\ pc' = "done"
    /\ ret' = Returned({})
    /\ UNCHANGED <<graph, pred_order, op, args, curr_gen, layer, traced, depth,
                   visited_edges, emitted>>

\* The while loop ends: infer_depth returns depth
InferDepthReturn ==
    /\ pc = "trace"
    /\ curr_gen = {}
    /\ op = "infer_depth"
    /\ pc' = "done"
    /\ ret' = Returned(depth)
    /\ UNCHANGED <<graph, pred_order, op, args, curr_gen, layer, traced, depth,
                   visited_edges, emitted>>

----------------------------------------------------------------------------
(* Cohort queries *)

\* nx.single_source_shortest_path_length(G or G.reverse(), node, cutoff): the
\* breadth-first distance of every node within cutoff steps of node.
RECURSIVE ShortestPathLevels(_, _, _, _, _)
ShortestPathLevels(forward, frontier, dist, level, cutoff) ==
    IF frontier = {} \/ level >= cutoff THEN dist
    ELSE LET nxt == NextGen(forward, frontier) \ DOMAIN dist
         IN  ShortestPathLevels(forward, nxt,
                 [x \in DOMAIN dist \cup nxt |-> IF x \in nxt THEN level + 1 ELSE dist[x]],
                 level + 1, cutoff)

single_source_shortest_path_length(forward, node, cutoff) ==
    ShortestPathLevels(forward, {node}, [x \in {node} |-> 0], 0, cutoff)

\* The body shared by predecessors() (forward = FALSE) and successors()
\* (forward = TRUE).  The elif tests  include_ends and len(graph.predecessors(nn)):
\* the graph hands back an iterator, which has no len(), so evaluating the right
\* operand raises TypeError; it is evaluated for the first item whose distance
\* is not k when include_ends is set.
KStepNeighbors(forward, node, k, include_intermediates, include_ends) ==
    LET dist == single_source_shortest_path_length(forward, node, k)
    IN  IF include_intermediates THEN Returned(DOMAIN dist)
        ELSE IF include_ends /\ \E nn \in DOMAIN dist : dist[nn] # k
             THEN Raised("TypeError")
             ELSE Returned({nn \in DOMAIN dist : dist[nn] = k})

predecessors(node, k, include_intermediates, include_founders) ==
    KStepNeighbors(FALSE, node, k, include_intermediates, include_founders)

successors(node, k, include_intermediates, include_leaves) ==
    KStepNeighbors(TRUE, node, k, include_intermediates, include_leaves)

\* self.successors(n) with the default arguments
children(n) == successors(n, 1, FALSE, FALSE).val

\* A set as a list, smallest first
RECURSIVE SeqOf(_)
SeqOf(S) ==
    IF S = {} THEN <<>>
    ELSE LET m == CHOOSE x \in S : \A y \in S : x <= y
         IN  <<m>> \o SeqOf(S \ {m})

RECURSIVE Concat(_)
Concat(ss) == IF ss = <<>> THEN <<>> ELSE Head(ss) \o Concat(Tail(ss))

\* Mutant of ExpandToLeaves: the work list is not expanded, each entry is a leaf
ExpandNothing(n_set, leaves) == leaves \cup {n_set[i] : i \in 1 .. Len(n_set)}

\* The while loop of get_probands_under: n_set is a work list; its head is
\* replaced by its children, or recorded as a leaf when it has none.
RECURSIVE ExpandToLeaves(_, _)
ExpandToLeaves(n_set, leaves) ==
    IF n_set = <<>> THEN leaves
    ELSE LET nn == Head(n_set)
             nn_children == SeqOf(children(nn))
         IN  IF Len(nn_children) > 0
             THEN ExpandToLeaves(Tail(n_set \o nn_children), leaves)
             ELSE ExpandToLeaves(Tail(n_set), leaves \cup {nn})

\* The body of the for loop of get_probands_under for one node n
ProbandsUnderNode(n, climb_up_step) ==
    LET base_set == predecessors(n, climb_up_step, FALSE, TRUE)
    IN  IF base_set.exc # "none" THEN base_set
        ELSE LET n_set == Concat([i \in 1 .. Cardinality(base_set.val) |->
                                     SeqOf(children(SeqOf(base_set.val)[i]))])
             IN  IF Len(n_set) = 0 THEN Returned({n})
                 ELSE Returned(ExpandToLeaves(n_set, {}))

get_probands_under(nodes, climb_up_step) ==
    IF \E n \in nodes : ProbandsUnderNode(n, climb_up_step).exc # "none"
    THEN Raised("TypeError")
    ELSE Returned([n \in nodes |-> ProbandsUnderNode(n, climb_up_step).val])

----------------------------------------------------------------------------
(* get_num_paths_to_target *)

RECURSIVE SumOver(_, _)
SumOver(f, S) ==
    IF S = {} THEN 0
    ELSE LET x == CHOOSE y \in S : TRUE
         IN  f[x] + SumOver(f, S \ {x})

\* Mutant of SumCounters: the dicts are merged with update(), a later count
\* replacing an earlier one instead of adding to it
UpdateCounters(pts, n_succ) ==
    [t \in UNION {DOMAIN pts[s] : s \in n_succ} |->
        pts[CHOOSE s \in n_succ : t \in DOMAIN pts[s]][t]]

\* sum((Counter(pts[suc]) for suc in n_succ), Counter())
SumCounters(pts, n_succ) ==
    [t \in UNION {DOMAIN pts[s] : s \in n_succ} |->
        SumOver([s \in n_succ |-> Get(pts[s], t, 0)], n_succ)]

\* The body of the for loop: the entry of node n
PathsEntry(pts, n, target) ==
    LET n_succ == children(n)
    IN  IF n \in target THEN [t \in {n} |-> 1]
        ELSE IF n_succ = {} THEN <<>>
        ELSE SumCounters(pts, n_succ)

\* The for loop over sorted(nodes, key=nodes.get, reverse=True): the nodes of
\* one depth are taken together, deepest first.  pts[suc] raises KeyError when
\* suc has no entry yet.
RECURSIVE PathsLoop(_, _, _, _)
PathsLoop(nodes, lvl, pts, target) ==
    IF lvl < 0 THEN Returned(pts)
    ELSE LET batch == {n \in DOMAIN nodes : nodes[n] = lvl}
         IN  IF \E n \in batch : n \notin target /\ ~ (children(n) \subseteq DOMAIN pts)
             THEN Raised("KeyError")
             ELSE PathsLoop(nodes, lvl - 1,
                     [n \in DOMAIN pts \cup batch |->
                         IF n \in batch THEN PathsEntry(pts, n, target) ELSE pts[n]],
                     target)

MaxDepth(nodes) ==
    IF DOMAIN nodes = {} THEN 0
    ELSE CHOOSE m \in 0 .. NumNodes :
            /\ \E n \in DOMAIN nodes : nodes[n] = m
            /\ \A n \in DOMAIN nodes : nodes[n] <= m

\* Lines 264-288, given the dict returned by infer_depth()
CountPaths(nodes, target, include_target) ==
    LET r == PathsLoop(nodes, MaxDepth(nodes), <<>>, target)
    IN  IF r.exc # "none" THEN r
        ELSE LET keep == {k \in DOMAIN r.val : DOMAIN r.val[k] # {}}
                 pts  == [k \in keep |-> r.val[k]]
             IN  IF include_target THEN Returned(pts)
                 ELSE IF \E t \in target : t \notin DOMAIN pts
                      THEN Raised("KeyError")
                      ELSE Returned([k \in keep \ target |-> pts[k]])

\* get_num_paths_to_target(...) reaches line 265: nodes = self.infer_depth()
CallGetNumPaths ==
    StartTrace("get_num_paths_to_target",
               [NoArgs EXCEPT !.forward = TRUE, !.source = DefaultSource(TRUE),
                              !.default = TRUE],
               DefaultSource(TRUE))

\* infer_depth() has returned: lines 267-288.  target and include_target are
\* first read here (lines 259-262 only wrap a scalar in a list), so they are
\* drawn here: default = TRUE is target=None, replaced by self.probands().
GetNumPathsReturn ==
    /\ pc = "trace"
    /\ curr_gen = {}
    /\ op = "get_num_paths_to_target"
    /\ \E given \in BOOLEAN, tgt \in SUBSET Nodes, inc \in BOOLEAN :
          /\ given \/ tgt = probands
          /\ args' = [args EXCEPT !.target = tgt, !.include_target = inc,
                                  !.default = ~ given]
          /\ ret' = CountPaths(depth, tgt, inc)
    /\ pc' = "done"
    /\ UNCHANGED <<graph, pred_order, op, curr_gen, layer, traced, depth,
                   visited_edges, emitted>>

----------------------------------------------------------------------------
(* similarity *)

\* The orders in which the graph can report the parents of each node: one
\* permutation of its parents per node (the order the edges were added in).
RECURSIVE OrdersUpTo(_, _)
OrdersUpTo(E, m) ==
    IF m = 0 THEN {<<>>}
    ELSE LET parents == {e[1] : e \in {x \in E : x[2] = m - 1}}
         IN  {[i \in 0 .. (m - 1) |-> IF i = m - 1 THEN s ELSE f[i]] :
                 f \in OrdersUpTo(E, m - 1), s \in PermSeqs(parents)}

PredOrders(E) == OrdersUpTo(E, NumNodes)

\* Matrix entries are held as multiples of 1/KScale, so that halving is exact:
\* an entry is reached from the diagonal by fewer than 2*NumNodes halvings.
KScale == 2 ^ (2 * NumNodes)

Half(x) == x \div 2

\* The body of the inner loop for the pair (i, j), i < j
SimilarityPair(K, order, i, j) ==
    IF PyAny(G_predecessors(j))
    THEN LET p == order[j][1]
             v == Half(K[<<i, p>>])
         IN  [K EXCEPT ![<<i, j>>] = v, ![<<j, i>>] = v]
    ELSE K

\* for j in range(j0, n)
RECURSIVE SimilarityRow(_, _, _, _)
SimilarityRow(K, order, i, j) ==
    IF j >= NumNodes THEN K
    ELSE SimilarityRow(SimilarityPair(K, order, i, j), order, i, j + 1)

\* for i in range(i0, n)
RECURSIVE SimilarityRows(_, _, _)
SimilarityRows(K, order, i) ==
    IF i >= NumNodes THEN K
    ELSE SimilarityRows(
             SimilarityRow([K EXCEPT ![<<i, i>>] = KScale \div 2], order, i, i + 1),
             order, i + 1)

similarity(order) == SimilarityRows([e \in Nodes \X Nodes |-> 0], order, 0)

----------------------------------------------------------------------------
(* Calls that run to completion in one step *)

Return(o, a, r) ==
    /\ pc = "idle"
    /\ pc' = "done"
    /\ op' = o
    /\ args' = a
    /\ ret' = r
    /\ UNCHANGED <<graph, curr_gen, layer, traced, depth, visited_edges, emitted>>

CallFounders ==
    /\ Return("founders", NoArgs, Returned(founders))
    /\ UNCHANGED pred_order

CallProbands ==
    /\ Return("probands", NoArgs, Returned(probands))
    /\ UNCHANGED pred_order

CallPredecessors ==
    /\ \E n \in Nodes, k \in 0 .. MaxK, im \in BOOLEAN, ends \in BOOLEAN :
          Return("predecessors",
                 [NoArgs EXCEPT !.node = n, !.k = k, !.include_intermediates = im,
                                !.include_ends = ends],
                 predecessors(n, k, im, ends))
    /\ UNCHANGED pred_order

CallSuccessors ==
    /\ \E n \in Nodes, k \in 0 .. MaxK, im \in BOOLEAN, ends \in BOOLEAN :
          Return("successors",
                 [NoArgs EXCEPT !.node = n, !.k = k, !.include_intermediates = im,
                                !.include_ends = ends],
                 successors(n, k, im, ends))
    /\ UNCHANGED pred_order

\* get_probands_under(nodes, climb_up_step): nodes is None (every node) or one node
CallGetProbandsUnder ==
    /\ \E ns \in {Nodes} \cup {{n} : n \in Nodes}, k \in 0 .. MaxK :
          Return("get_probands_under",
                 [NoArgs EXCEPT !.nodes = ns, !.k = k, !.default = (ns = Nodes)],
                 get_probands_under(ns, k))
    /\ UNCHANGED pred_order

\* similarity(): the first call that reads the order of the parents fixes it
CallSimilarity ==
    \E order \in PredOrders(graph) :
        /\ pred_order' = order
        /\ Return("similarity", NoArgs, Returned(similarity(order)))

----------------------------------------------------------------------------

Init ==
    /\ graph \in DagEdgeSets
    /\ pred_order = <<>>
    /\ pc = "idle"
    /\ op = "none"
    /\ args = NoArgs
    /\ curr_gen = {}
    /\ layer = 0
    /\ traced = <<>>
    /\ depth = <<>>
    /\ visited_edges = {}
    /\ emitted = <<>>
    /\ ret = NoReturn

TraceNext ==
    \/ CallTraceEdges
    \/ CallTraceEdgesDefault
    \/ TraceLayer
    \/ TraceDone

DepthNext ==
    \/ CallIterEdges
    \/ CallInferDepth
    \/ TraceLayer
    \/ TraceDone
    \/ InferDepthReturn

PathsNext ==
    \/ CallGetNumPaths
    \/ TraceLayer
    \/ GetNumPathsReturn

CohortNext ==
    \/ CallFounders
    \/ CallProbands
    \/ CallPredecessors
    \/ CallSuccessors
    \/ CallSimilarity

ProbandsUnderNext ==
    \/ CallGetProbandsUnder

Next ==
    \/ CallTraceEdges
    \/ CallTraceEdgesDefault
    \/ CallIterEdges
    \/ CallInferDepth
    \/ CallGetNumPaths
    \/ TraceLayer
    \/ TraceDone
    \/ InferDepthReturn
    \/ GetNumPathsReturn
    \/ CallFounders
    \/ CallProbands
    \/ CallPredecessors
    \/ CallSuccessors
    \/ CallSimilarity
    \/ CallGetProbandsUnder

\* Every query
Spec == Init /\ [][Next]_vars
\* trace_edges alone, from any source
SpecTrace == Init /\ [][TraceNext]_vars
\* infer_depth and iter_edges
SpecDepth == Init /\ [][DepthNext]_vars
\* get_num_paths_to_target
SpecPaths == Init /\ [][PathsNext]_vars
\* founders, probands, predecessors, successors, similarity
SpecCohort == Init /\ [][CohortNext]_vars
\* get_probands_under
SpecProbandsUnder == Init /\ [][ProbandsUnderNext]_vars

----------------------------------------------------------------------------
(* What the queries are specified to compute, read off the edge set *)

Last(p) == p[Len(p)]

\* The paths that extend a path of P by one edge
Extend(P) == UNION {{Append(p, c) : c \in G_successors(Last(p))} : p \in P}

\* The paths of P and all their extensions (finitely many: the graph is acyclic)
RECURSIVE PathsExtending(_)
PathsExtending(P) == IF P = {} THEN {} ELSE P \cup PathsExtending(Extend(P))

\* The directed paths that start at n, as sequences of nodes, <<n>> included
PathsFrom(n) == PathsExtending({<<n>>})

\* Every directed path
AllPaths == PathsExtending({<<n>> : n \in Nodes})

\* The end a traversal starts a path from, and the end it reaches
Start(forward, p) == IF forward THEN p[1] ELSE Last(p)
End(forward, p)   == IF forward THEN Last(p) ELSE p[1]

NoParents  == {n \in Nodes : G_predecessors(n) = {}}
NoChildren == {n \in Nodes : G_successors(n) = {}}
TrueSource(forward) == IF forward THEN NoParents ELSE NoChildren

Max(S) == CHOOSE m \in S : \A x \in S : x <= m

\* Length of the longest path that reaches n from a source of the direction
LongestTo(forward, n) ==
    Max({Len(p) - 1 : p \in {q \in AllPaths : End(forward, q) = n
                                              /\ Start(forward, q) \in TrueSource(forward)}})

\* Length of the longest path among the paths P
Longest(P) == Max({Len(p) - 1 : p \in P})

LongestPath == Longest(AllPaths)

\* Nodes reached from a node of S by a path of P with exactly k edges
ReachedIn(P, forward, S, k) ==
    {End(forward, p) : p \in {q \in P : Len(q) = k + 1 /\ Start(forward, q) \in S}}

\* Nodes reached from n by one or more edges
Descendants(n) == {Last(p) : p \in PathsFrom(n)} \ {n}

\* Number of the paths P that end at t
NumPathsTo(P, t) == Cardinality({p \in P : Last(p) = t})

\* Number of directed paths from n to t
NumPaths(n, t) == NumPathsTo(PathsFrom(n), t)

\* Number of the paths P that end at t and meet no node of T before t
NumPathsAvoiding(P, t, T) ==
    Cardinality({p \in P : /\ Last(p) = t
                           /\ \A i \in 1 .. (Len(p) - 1) : p[i] \notin T})

\* The count a result of get_num_paths_to_target holds for (n, t); absent is 0
PathCount(r, n, t) == IF n \in DOMAIN r THEN Get(r[n], t, 0) ELSE 0

Finished(o) == pc = "done" /\ op = o

----------------------------------------------------------------------------
(* C1 *)

DepthOf(n) == Get(ret.val, n, 0)

\* C1: when infer_depth(forward) returns, the depth of every node is the length
\* of the longest path reaching it from a source of the direction: sources have
\* depth 0, every traced edge gains at least 1, and every other node has a
\* neighbor on the source side exactly one below it.
C1_DepthIsLongestPath ==
    Finished("infer_depth") =>
        LET fwd == args.forward
        IN  \A n \in Nodes :
               /\ DepthOf(n) = LongestTo(fwd, n)
               /\ n \in TrueSource(fwd) => DepthOf(n) = 0
               /\ \A c \in neighbors(fwd, n) : DepthOf(c) >= DepthOf(n) + 1
               /\ n \notin TrueSource(fwd) =>
                     \E q \in neighbors(~ fwd, n) : DepthOf(n) = DepthOf(q) + 1

\* infer_depth has returned in each direction on a graph where a node is reached
\* by paths of different lengths, and node 0 is a parent
C1_Witness ==
    /\ Finished("infer_depth")
    /\ ~ args.forward
    /\ \E n \in Nodes : \E q, r \in neighbors(TRUE, n) : DepthOf(q) + 1 < DepthOf(r) + 1
    /\ G_successors(0) # {}
    /\ \E n \in Nodes : DepthOf(n) = 3

----------------------------------------------------------------------------
(* C5 *)

Oriented(forward) == IF forward THEN graph ELSE {<<e[2], e[1]>> : e \in graph}

\* C5: when iter_edges() with the default source is exhausted, it has yielded
\* every edge of the graph, oriented by the direction, exactly once.
C5_EachEdgeOnce ==
    Finished("iter_edges") =>
        /\ DOMAIN emitted = Oriented(args.forward)
        /\ \A e \in DOMAIN emitted : emitted[e] = 1

\* iter_edges is exhausted after trace_edges, started from the nodes without
\* parents, yielded some edge twice
C5_Witness ==
    /\ Finished("iter_edges")
    /\ args.forward
    /\ args.source = NoParents
    /\ \E e \in DOMAIN traced : traced[e] >= 2 /\ emitted[e] = 1

----------------------------------------------------------------------------
(* C10 *)

\* C10: while trace_edges runs, after k iterations of its loop the current
\* generation is the set of nodes reached from the source by a path of exactly
\* k edges; the loop has ended once the generation is empty, which happens
\* within (longest path length + 1) iterations.
C10_LayersAndTermination ==
    op = "trace_edges" =>
        LET paths   == AllPaths
            longest == Longest(paths)
        IN  /\ curr_gen = ReachedIn(paths, args.forward, args.source, layer)
            /\ layer <= longest + 1
            /\ pc = "done" => curr_gen = {}
            /\ (pc = "trace" /\ curr_gen # {}) => layer <= longest

\* trace_edges ended after the full longest path + 1 layers from a source the
\* caller gave, going backward, some node having been reached from two nodes
C10_Witness ==
    /\ Finished("trace_edges")
    /\ ~ args.default
    /\ ~ args.forward
    /\ Cardinality(args.source) = 1
    /\ \E e, f \in DOMAIN traced : e[1] # f[1] /\ e[2] = f[2] /\ traced[e] = 1
    /\ layer = LongestPath + 1
    /\ layer >= 3

----------------------------------------------------------------------------
(* C2, C3, C4 *)

\* C2: get_num_paths_to_target() with the default target and include_target=True
\* returns, for every node n and every node t without children, the number of
\* directed paths from n to t (1 from t to itself).
C2_PathCountsToProbands ==
    (Finished("get_num_paths_to_target") /\ args.default /\ args.include_target) =>
        /\ ret.exc = "none"
        /\ \A n \in Nodes, t \in NoChildren : PathCount(ret.val, n, t) = NumPaths(n, t)

HasEdge(n) == G_predecessors(n) # {} \/ G_successors(n) # {}

C4_ExcludeTargetsCompletes ==
    (Finished("get_num_paths_to_target") /\ ~ args.default /\ ~ args.include_target) =>
        LET with == CountPaths(depth, args.target, TRUE)
        IN  /\ ret.exc = "none"
            /\ DOMAIN ret.val = DOMAIN with.val \ args.target
            /\ \A n \in DOMAIN ret.val : ret.val[n] = with.val[n]

----------------------------------------------------------------------------
(* C6, C7, C8, C9 *)

\* C6: founders() returns exactly the nodes without incoming edges and
\* probands() exactly the nodes without outgoing edges.
C6_FoundersAndProbands ==
    /\ Finished("founders") => ret.val = NoParents
    /\ Finished("probands") => ret.val = NoChildren

\* C7: for k >= 1, predecessors(n, k, include_founders=True) completes and
\* returns the nodes at reverse distance k from n and the nodes without parents
\* at reverse distance less than k; successors(n, k, include_leaves=True) is the
\* mirror image.
C7_IncludeEndsCompletes ==
    \A o \in {"predecessors", "successors"} :
        (Finished(o) /\ args.k >= 1 /\ args.include_ends /\ ~ args.include_intermediates) =>
            LET fwd  == o = "successors"
                dist == single_source_shortest_path_length(fwd, args.node, args.k)
            IN  /\ ret.exc = "none"
                /\ ret.val = {nn \in DOMAIN dist :
                                 dist[nn] = args.k \/ neighbors(fwd, nn) = {}}

\* C8: get_probands_under(nodes, climb_up_step=0) completes and maps each input
\* node n to the childless nodes reached from n by one or more edges, or to {n}
\* when n has no children.
C8_ProbandsUnder ==
    (Finished("get_probands_under") /\ args.k = 0) =>
        /\ ret.exc = "none"
        /\ DOMAIN ret.val = args.nodes
        /\ \A n \in args.nodes :
              ret.val[n] = IF G_successors(n) = {} THEN {n}
                           ELSE Descendants(n) \cap NoChildren

\* The call returned for every node, one of them with leaves at different
\* distances below it and one of them without children
C8_Witness ==
    /\ Finished("get_probands_under")
    /\ args.k = 0
    /\ args.nodes = Nodes
    /\ \E n \in args.nodes :
          /\ Cardinality(ret.val[n]) >= 2
          /\ ret.val[n] \cap G_successors(n) # {}
          /\ ret.val[n] \ G_successors(n) # {}
    /\ \E n \in args.nodes : G_successors(n) = {} /\ ret.val[n] = {n}

\* C9: on a graph whose parents all have smaller identifiers than their
\* children, similarity() returns K with K[i,i] = 0.5 and, for i < j where j has
\* a parent, K[i,j] = K[j,i] = K[i,p]/2 with p the first parent of j.
C9_SimilarityHalvesFirstParent ==
    (Finished("similarity") /\ \A e \in graph : e[1] < e[2]) =>
        LET K == ret.val
        IN  /\ \A i \in Nodes : K[<<i, i>>] * 2 = KScale
            /\ \A i, j \in Nodes :
                  (i < j /\ G_predecessors(j) # {}) =>
                      /\ K[<<i, j>>] = K[<<j, i>>]
                      /\ K[<<i, j>>] * 2 = K[<<i, pred_order[j][1]>>]

=============================================================================
